---- MODULE Spec2Model ----
(***************************************************************************)
(* A model of the jkt48-cdn file relay: src/utils/github.js (identifier    *)
(* generation, validation, the GitHub contents adapter) and the first      *)
(* revision of src/server.js (upload pipeline, GET /:filename with range   *)
(* serving and chunked delivery, HEAD /:filename).                         *)
(*                                                                         *)
(* Strings are sequences of one-character strings, so that the regular     *)
(* expression, split, slice, toLowerCase, parseInt and toString(36) are    *)
(* computed character by character as the JavaScript does.  A Buffer is a  *)
(* view [data, lo, hi) onto a named content, which is what Buffer.slice    *)
(* returns in Node.                                                        *)
(***************************************************************************)
EXTENDS Integers, Sequences, FiniteSets, TLC

\* ------------------------------------------------------------ characters

DigitSeq == <<"0","1","2","3","4","5","6","7","8","9">>
LowerSeq == <<"a","b","c","d","e","f","g","h","i","j","k","l","m",
              "n","o","p","q","r","s","t","u","v","w","x","y","z">>
UpperSeq == <<"A","B","C","D","E","F","G","H","I","J","K","L","M",
              "N","O","P","Q","R","S","T","U","V","W","X","Y","Z">>
Base36Seq == DigitSeq \o LowerSeq

Range(s) == { s[i] : i \in DOMAIN s }
DigitChars == Range(DigitSeq)
LowerChars == Range(LowerSeq)
UpperChars == Range(UpperSeq)
IndexOf(c, s) == CHOOSE i \in DOMAIN s : s[i] = c

\* String.prototype.toLowerCase, on one character and on a string
ToLowerChar(c) == IF c \in UpperChars THEN LowerSeq[IndexOf(c, UpperSeq)] ELSE c
ToLowerCase(s) == [i \in DOMAIN s |-> ToLowerChar(s[i])]

\* s.slice(from) with from >= 0, 0-based as in JavaScript
SliceFrom(s, from) == IF from >= Len(s) THEN <<>> ELSE SubSeq(s, from + 1, Len(s))
\* s.slice(-n)
SliceLast(s, n) == IF n >= Len(s) THEN s ELSE SubSeq(s, Len(s) - n + 1, Len(s))

StartsWith(s, p) == Len(s) >= Len(p) /\ SubSeq(s, 1, Len(p)) = p
EndsWith(s, p) == Len(s) >= Len(p) /\ SubSeq(s, Len(s) - Len(p) + 1, Len(s)) = p
\* String.prototype.includes
Includes(s, p) == \E i \in 1..(Len(s) - Len(p) + 1) : SubSeq(s, i, i + Len(p) - 1) = p

\* the 1-based position of the last occurrence of character c in s, 0 if none
LastIndexOfChar(s, c) ==
  IF \E i \in DOMAIN s : s[i] = c
  THEN CHOOSE i \in DOMAIN s : s[i] = c /\ \A j \in DOMAIN s : s[j] = c => j <= i
  ELSE 0
\* the 1-based position of the first occurrence of character c in s, 0 if none
FirstIndexOfChar(s, c) ==
  IF \E i \in DOMAIN s : s[i] = c
  THEN CHOOSE i \in DOMAIN s : s[i] = c /\ \A j \in DOMAIN s : s[j] = c => j >= i
  ELSE 0

\* s.split(c).pop(): the text after the last c, the whole string if c is absent
SplitPop(s, c) == SliceFrom(s, LastIndexOfChar(s, c))

\* s.split(c): the sequence of the parts of s between occurrences of c
RECURSIVE Split(_, _)
Split(s, c) ==
  LET k == FirstIndexOfChar(s, c)
  IN IF k = 0 THEN <<s>>
     ELSE <<SubSeq(s, 1, k - 1)>> \o Split(SliceFrom(s, k), c)

\* s.replace(/p/, ""): the first occurrence of the literal p removed
ReplaceFirst(s, p) ==
  IF Includes(s, p)
  THEN LET k == CHOOSE i \in 1..(Len(s) - Len(p) + 1) :
                  /\ SubSeq(s, i, i + Len(p) - 1) = p
                  /\ \A j \in 1..(i - 1) : SubSeq(s, j, j + Len(p) - 1) # p
       IN SubSeq(s, 1, k - 1) \o SliceFrom(s, k + Len(p) - 1)
  ELSE s

\* ------------------------------------------------------- JavaScript numbers

\* A JavaScript number is an integer or NaN.
Num(n) == [nan |-> FALSE, v |-> n]
NaN == [nan |-> TRUE, v |-> 0]
\* a >= b, a > b and the arithmetic of the range code: false, or NaN, on NaN
JsGe(a, b) == ~a.nan /\ ~b.nan /\ a.v >= b.v
JsGt(a, b) == ~a.nan /\ ~b.nan /\ a.v > b.v
JsChunkSize(start, end) == IF start.nan \/ end.nan THEN NaN ELSE Num((end.v - start.v) + 1)

\* the leading run of decimal digits of s
RECURSIVE DigitPrefix(_)
DigitPrefix(s) ==
  IF s = <<>> \/ s[1] \notin DigitChars THEN <<>> ELSE <<s[1]>> \o DigitPrefix(Tail(s))

RECURSIVE DigitsValue(_)
DigitsValue(d) ==
  IF d = <<>> THEN 0
  ELSE 10 * DigitsValue(SubSeq(d, 1, Len(d) - 1)) + (IndexOf(d[Len(d)], DigitSeq) - 1)

\* parseInt(s, 10): leading blanks skipped, an optional sign, then digits; NaN if none
RECURSIVE ParseInt(_)
ParseInt(s) ==
  IF s # <<>> /\ s[1] = " " THEN ParseInt(Tail(s))
  ELSE LET neg == s # <<>> /\ s[1] = "-"
           body == IF s # <<>> /\ s[1] \in {"-", "+"} THEN Tail(s) ELSE s
           d == DigitPrefix(body)
       IN IF d = <<>> THEN NaN
          ELSE Num(IF neg THEN 0 - DigitsValue(d) ELSE DigitsValue(d))

\* Number.prototype.toString(radix) for n >= 0, radix 10 and 36
RECURSIVE ToStringRadix(_, _)
ToStringRadix(n, radix) ==
  IF n < radix THEN <<Base36Seq[n + 1]>>
  ELSE ToStringRadix(n \div radix, radix) \o <<Base36Seq[(n % radix) + 1]>>

\* a number as a template literal prints it
JsNumText(a) == IF a.nan THEN <<"N","a","N">>
                ELSE IF a.v < 0 THEN <<"-">> \o ToStringRadix(0 - a.v, 10)
                ELSE ToStringRadix(a.v, 10)

\* ------------------------------------------------------------- literals

S_J == <<"J", "-">>
S_dot == <<".">>
S_dotdot == <<".", ".">>
S_slash == <<"/">>
S_backslash == <<"\\">>
S_bin == <<"b","i","n">>
S_html == <<"h","t","m","l">>
S_htm == <<"h","t","m">>
S_pdf == <<"p","d","f">>
S_png == <<"p","n","g">>
S_txt == <<"t","x","t">>
S_mp4 == <<"m","p","4">>
S_true == <<"t","r","u","e">>
S_bytesEq == <<"b","y","t","e","s","=">>
S_files == <<"f","i","l","e","s","/">>

\* ------------------------------------------------------------- the clock

RECURSIVE PadLeft(_, _)
PadLeft(s, n) == IF Len(s) >= n THEN s ELSE PadLeft(<<"0">> \o s, n)

\* Date.now().toString(36) of the clock [hi, lo]
NowToString36(t) ==
  IF t.hi = 0 THEN ToStringRadix(t.lo, 36)
  ELSE ToStringRadix(t.hi, 36) \o PadLeft(ToStringRadix(t.lo, 36), 4)

\* Date.now().toString(36).slice(-4)
TimestampOf(t) == SliceLast(NowToString36(t), 4)

\* Clock readings of the year 2023 and later: a millisecond, the next one,
\* and the one 36^4 ms after the first.
ClockValues == { [hi |-> 1012136, lo |-> 777600],
                 [hi |-> 1012136, lo |-> 777601],
                 [hi |-> 1012137, lo |-> 777600] }
Later(a, b) == a.hi > b.hi \/ (a.hi = b.hi /\ a.lo > b.lo)

\* ------------------------------------------------- src/utils/github.js

\* /^J-[a-f0-9]{8}[a-z0-9]{4}\.[a-zA-Z0-9]{1,10}$/i : with the i flag every
\* letter class, and the J, match either case.
IsHexCharI(c) == c \in DigitChars \/ ToLowerChar(c) \in {"a","b","c","d","e","f"}
IsAlnumChar(c) == c \in DigitChars \/ c \in LowerChars \/ c \in UpperChars

isValidFilenameLoose(filename) ==
  /\ Len(filename) >= 16
  /\ ToLowerChar(filename[1]) = "j"
  /\ filename[2] = "-"
  /\ \A i \in 3..10 : IsHexCharI(filename[i])
  /\ \A i \in 11..14 : IsAlnumChar(filename[i])
  /\ filename[15] = "."

isValidFilename(filename) ==
  /\ Len(filename) >= 16
  /\ Len(filename) <= 25
  /\ ToLowerChar(filename[1]) = "j"
  /\ filename[2] = "-"
  /\ \A i \in 3..10 : IsHexCharI(filename[i])
  /\ \A i \in 11..14 : IsAlnumChar(filename[i])
  /\ filename[15] = "."
  /\ \A i \in 16..Len(filename) : IsAlnumChar(filename[i])

\* the extension generateShortFilename settles on (cleanExt)
CleanExtDeclaredOnly(extension, originalFilename) ==
  LET lowered == ToLowerCase(extension)
      stripped == IF StartsWith(lowered, S_dot) THEN SliceFrom(lowered, 1) ELSE lowered
  IN IF stripped = <<>> THEN S_bin ELSE stripped
CleanExt(extension, originalFilename) ==
  LET lowered == ToLowerCase(extension)
      stripped == IF StartsWith(lowered, S_dot) THEN SliceFrom(lowered, 1) ELSE lowered
      originalExt == SplitPop(originalFilename, ".")
      fromName == IF (stripped = <<>> \/ stripped = S_bin)
                     /\ originalExt # <<>> /\ originalExt # originalFilename
                  THEN ToLowerCase(originalExt)
                  ELSE stripped
  IN IF fromName = <<>> THEN S_bin ELSE fromName

\* generateShortFilename(buffer, extension, originalFilename), with the md5
\* prefix of the buffer and the clock reading as arguments
generateShortFilename(hash, t, extension, originalFilename) ==
  S_J \o hash \o TimestampOf(t) \o S_dot \o CleanExt(extension, originalFilename)

\* the storage key of an identifier: `files/${filename}`
StoragePath(filename) == S_files \o filename

\* ------------------------------------------- path.extname, mime.lookup

\* path.extname (posix) of Node
RECURSIVE StripTrailingSlashes(_)
StripTrailingSlashes(p) ==
  IF p # <<>> /\ p[Len(p)] = "/" THEN StripTrailingSlashes(SubSeq(p, 1, Len(p) - 1)) ELSE p

Extname(p) ==
  LET q == StripTrailingSlashes(p)
      base == SplitPop(q, "/")
      k == LastIndexOfChar(base, ".")
  IN IF k = 0 \/ k = 1 \/ base = S_dotdot THEN <<>> ELSE SliceFrom(base, k - 1)

\* mime.lookup(extension) || 'application/octet-stream', for the extensions
\* the model meets; mime-types lowercases the extension it looks up
MimeLookup(extension) ==
  LET e == ToLowerCase(extension)
  IN IF e = S_html \/ e = S_htm THEN "text/html"
     ELSE IF e = S_txt THEN "text/plain"
     ELSE IF e = S_pdf THEN "application/pdf"
     ELSE IF e = S_png THEN "image/png"
     ELSE IF e = S_mp4 THEN "video/mp4"
     ELSE "application/octet-stream"

\* ------------------------------------------------------------ contents

\* The byte strings the model uploads and stores, by name.  SizeOf is the
\* length in bytes, Md5Hex8 the first 8 hex characters of the md5 digest
\* (crypto), Sniff the extension file-type detects from the magic bytes
\* (<<>>: undetected).
MiB == 1024 * 1024
Contents == {"empty", "tiny", "note", "slab", "pic", "film", "huge"}

SizeOf(c) ==
  CASE c = "empty" -> 0
    [] c = "tiny" -> 3
    [] c = "note" -> 12
    [] c = "slab" -> MiB
    [] c = "pic" -> MiB + 1
    [] c = "film" -> (5 * MiB) + 1
    [] c = "huge" -> (100 * MiB) + 1

Md5Hex8(c) ==
  CASE c = "empty" -> <<"d","4","1","d","8","c","d","9">>
    [] c = "tiny" -> <<"0","a","1","b","2","c","3","d">>
    [] c = "note" -> <<"0","a","1","b","2","c","3","d">>
    [] c = "slab" -> <<"9","e","1","0","7","d","9","d">>
    [] c = "pic" -> <<"7","7","e","0","9","f","4","2">>
    [] c = "film" -> <<"c","4","5","5","a","0","1","e">>
    [] c = "huge" -> <<"5","b","6","6","f","3","a","1">>

Sniff(c) == IF c = "pic" THEN S_png ELSE <<>>

\* A Buffer: the bytes lo..hi-1 of a content.
WholeBuffer(c) == [data |-> c, lo |-> 0, hi |-> SizeOf(c)]
BufLen(b) == b.hi - b.lo

\* Buffer.prototype.slice: adjustOffset turns NaN into 0, counts a negative
\* offset from the end and clamps to the length
AdjustOffset(offset, length) ==
  IF offset.nan \/ offset.v = 0 THEN 0
  ELSE IF offset.v < 0
       THEN (IF offset.v + length > 0 THEN offset.v + length ELSE 0)
       ELSE IF offset.v < length THEN offset.v ELSE length

BufSlice(b, start, end) ==
  LET s == AdjustOffset(start, BufLen(b))
      e == AdjustOffset(end, BufLen(b))
  IN [data |-> b.data, lo |-> b.lo + s, hi |-> b.lo + (IF e > s THEN e ELSE s)]

\* buffer.toString('base64') and Buffer.from(content, 'base64'): the encoded
\* text is kept as the buffer it encodes, tagged, since the bytes of a content
\* are not spelled out; decoding a text yields the bytes that were encoded.
Base64Encode(b) == [b64 |-> b]
Base64Decode(x) == x.b64

\* A body is the sequence of the buffers written to the response; writing a
\* buffer that continues the last one extends it, so that a body is compared
\* by its bytes and not by how they were cut.
BodyAppend(body, b) ==
  IF BufLen(b) = 0 THEN body
  ELSE IF body # <<>> /\ body[Len(body)].data = b.data /\ body[Len(body)].hi = b.lo
       THEN [body EXCEPT ![Len(body)].hi = b.hi]
       ELSE Append(body, b)

\* ------------------------------------------------------------- the state

\* Bounds of the model: backend failures injected, upload requests taken,
\* and upload requests taken while /:filename is being served as well.
MaxFaults == 3
MaxUploads == 2
MaxRoundTrips == 1

\* The two request slots of GET/HEAD /:filename.
Reqs == {1, 2}

VARIABLES
  store,     \* the repository: identifier -> name of the content under files/<identifier>
  now,       \* Date.now(), as [hi, lo] with value hi * 36^4 + lo
  faults,    \* backend failures injected so far
  uploads,   \* upload requests started so far
  up,        \* the POST /api/upload request (before: the repository when it arrived)
  get,       \* the GET or HEAD /:filename requests, by slot
  log        \* the uploads answered with success: identifier, buffer, clock reading

vars == <<store, now, faults, uploads, up, get, log>>

\* ------------------------------------------------------ the HTTP response

NoLength == [set |-> FALSE, n |-> Num(0)]
Length(n) == [set |-> TRUE, n |-> n]

\* the fields of the JSON answer of /api/info/:filename
NoInfo == [size |-> -1, type |-> "", isHtml |-> FALSE]

NoRes == [status |-> 0, ctype |-> "", clen |-> NoLength, crange |-> <<>>,
          cdisp |-> <<>>, accept |-> "", cache |-> "", error |-> "",
          info |-> NoInfo, body |-> <<>>, ended |-> FALSE]

\* res.status(code).json({ error }) and res.status(code).end()
JsonError(code, msg) ==
  [NoRes EXCEPT !.status = code, !.ctype = "application/json", !.error = msg, !.ended = TRUE]
EndOnly(code) == [NoRes EXCEPT !.status = code, !.ended = TRUE]

S_bytesSp == <<"b","y","t","e","s"," ">>
S_starSlash == <<"*","/">>
S_inline == <<"i","n","l","i","n","e",";"," ","f","i","l","e","n","a","m","e","=","\"">>

\* `bytes */${size}` and `bytes ${start}-${end}/${size}`
ContentRangeUnsatisfied(size) == S_bytesSp \o S_starSlash \o JsNumText(Num(size))
ContentRangeOf(start, end, size) ==
  S_bytesSp \o JsNumText(start) \o <<"-">> \o JsNumText(end) \o <<"/">> \o JsNumText(Num(size))
\* `inline; filename="${filename}"`
ContentDisposition(filename) == S_inline \o filename \o <<"\"">>

\* ------------------------------------------------ GET and HEAD /:filename

NoBuffer == [data |-> "none", lo |-> 0, hi |-> 0]

IdleReq == [pc |-> "idle", method |-> "GET", filename |-> <<>>, text |-> <<>>,
            plain |-> <<>>, range |-> <<>>, i |-> 0, found |-> FALSE,
            data |-> NoBuffer, offset |-> 0, res |-> NoRes,
            infoCalls |-> 0, contentCalls |-> 0, downloadCalls |-> 0,
            lastWrite |-> "none", writes |-> 0, ends |-> 0, waits |-> 0,
            faulted |-> FALSE, expect |-> "none"]

\* The routes in the order they are registered: app.get('/:filename'),
\* app.get('/api/info/:filename'), app.head('/:filename').  Express hands a
\* request to the first route whose path matches and that handles its
\* method, and a route that has a get handler and no head handler handles
\* HEAD as well.  The method "INFO" stands for GET /api/info/:filename.
Routes == <<"get", "info", "head">>
RouteHandles(route, method) ==
  \/ route = "get" /\ method \in {"GET", "HEAD"}
  \/ route = "info" /\ method = "INFO"
  \/ route = "head" /\ method = "HEAD"
RouteHandlerHeadFirst(method) ==
  IF method = "HEAD" THEN "head" ELSE IF method = "INFO" THEN "info" ELSE "get"
RouteHandler(method) ==
  Routes[CHOOSE i \in 1..Len(Routes) :
           /\ RouteHandles(Routes[i], method)
           /\ \A j \in 1..(i - 1) : ~RouteHandles(Routes[j], method)]

\* What goes out for a response: the answer to a HEAD request has its status
\* and headers and no body (Node ignores what is written to it).
Reply(method, res) ==
  IF method = "HEAD" THEN [res EXCEPT !.error = "", !.body = <<>>] ELSE res
ResWrite(method, body, chunk) ==
  IF method = "HEAD" THEN body ELSE BodyAppend(body, chunk)

\* the handlers' first test: !filename || includes('..') || includes('/') || includes('\\')
BasicInvalid(filename) ==
  \/ filename = <<>>
  \/ Includes(filename, S_dotdot)
  \/ Includes(filename, S_slash)
  \/ Includes(filename, S_backslash)

\* What the contents API answers for a key: "ok" when the key is stored,
\* "404" when it is not, and "fault" (a 5xx, a network error, a timeout)
\* while the model's budget of failures lasts.
ContentOutcomes(filename) ==
  (IF filename \in DOMAIN store THEN {"ok"} ELSE {"404"})
    \cup (IF faults < MaxFaults THEN {"fault"} ELSE {})
\* What fetch(download_url) answers.
DownloadOutcomes == {"ok"} \cup (IF faults < MaxFaults THEN {"fault"} ELSE {})

\* Whether a call of getFileInfo, getFileFromGitHub or uploadToGitHub throws:
\* each has its whole body in a try whose catch logs the error and returns
\* { success: false }.
Throws(call) == FALSE

\* The catch block of a retry loop: when the awaited call threw and another
\* attempt follows, the loop waits (setTimeout) before it.  A call that
\* returned without success goes to the next attempt at once.
RetryWait(h, call) == IF Throws(call) THEN [h EXCEPT !.waits = h.waits + 1] ELSE h

\* whether getFileInfo and getFileFromGitHub reach the backend for this name
getFileInfoCallsBackendAlways(filename) == TRUE
getFileInfoCallsBackend(filename) == filename # <<>> /\ isValidFilename(filename)

\* sendChunk: one call, with what res.write does ("ok": returns true, "full":
\* returns false, "throw": throws).  The catch answers 500 when no header
\* has gone out, which is so until the first write, and otherwise leaves the
\* response as it is.
SendChunkNoEnd(g, w) ==
  LET len == BufLen(g.data)
      chunkSize == MiB
      upto == IF g.offset + chunkSize < len THEN g.offset + chunkSize ELSE len
      chunk == BufSlice(g.data, Num(g.offset), Num(upto))
  IN IF g.offset >= len
     THEN g
     ELSE IF w = "throw"
          THEN IF g.writes = 0
               THEN [g EXCEPT !.pc = "done", !.lastWrite = "throw",
                              !.res.status = 500, !.res.ended = TRUE]
               ELSE [g EXCEPT !.pc = "failed", !.lastWrite = "throw"]
     ELSE IF w = "full" /\ g.method # "HEAD"
          THEN [g EXCEPT !.pc = "drain", !.writes = g.writes + 1, !.lastWrite = "full",
                         !.res.body = ResWrite(g.method, g.res.body, chunk)]
          ELSE [g EXCEPT !.pc = "stream", !.writes = g.writes + 1, !.lastWrite = "ok",
                         !.res.body = ResWrite(g.method, g.res.body, chunk),
                         !.offset = g.offset + chunkSize]

SendChunkNoWait(g, w) ==
  LET len == BufLen(g.data)
      chunkSize == MiB
      upto == IF g.offset + chunkSize < len THEN g.offset + chunkSize ELSE len
      chunk == BufSlice(g.data, Num(g.offset), Num(upto))
  IN IF g.offset >= len
     THEN [g EXCEPT !.pc = "done", !.res.ended = TRUE, !.ends = g.ends + 1]
     ELSE [g EXCEPT !.pc = "stream", !.writes = g.writes + 1,
                    !.lastWrite = IF w = "full" /\ g.method # "HEAD" THEN "full" ELSE "ok",
                    !.res.body = ResWrite(g.method, g.res.body, chunk),
                    !.offset = g.offset + chunkSize]
SendChunkAnswersTwice(g, w) ==
  LET len == BufLen(g.data)
      chunkSize == MiB
      upto == IF g.offset + chunkSize < len THEN g.offset + chunkSize ELSE len
      chunk == BufSlice(g.data, Num(g.offset), Num(upto))
  IN IF g.offset >= len
     THEN [g EXCEPT !.pc = "done", !.res.ended = TRUE, !.ends = g.ends + 1]
     ELSE IF w = "throw"
          THEN [g EXCEPT !.pc = "done", !.lastWrite = "throw",
                         !.res.status = 500, !.res.ended = TRUE]
     ELSE IF w = "full" /\ g.method # "HEAD"
          THEN [g EXCEPT !.pc = "drain", !.writes = g.writes + 1, !.lastWrite = "full",
                         !.res.body = ResWrite(g.method, g.res.body, chunk)]
          ELSE [g EXCEPT !.pc = "stream", !.writes = g.writes + 1, !.lastWrite = "ok",
                         !.res.body = ResWrite(g.method, g.res.body, chunk),
                         !.offset = g.offset + chunkSize]
SendChunk(g, w) ==
  LET len == BufLen(g.data)
      chunkSize == MiB
      upto == IF g.offset + chunkSize < len THEN g.offset + chunkSize ELSE len
      chunk == BufSlice(g.data, Num(g.offset), Num(upto))
  IN IF g.offset >= len
     THEN [g EXCEPT !.pc = "done", !.res.ended = TRUE, !.ends = g.ends + 1]
     ELSE IF w = "throw"
          THEN IF g.writes = 0
               THEN [g EXCEPT !.pc = "done", !.lastWrite = "throw",
                              !.res.status = 500, !.res.ended = TRUE]
               ELSE [g EXCEPT !.pc = "failed", !.lastWrite = "throw"]
     ELSE IF w = "full" /\ g.method # "HEAD"
          THEN [g EXCEPT !.pc = "drain", !.writes = g.writes + 1, !.lastWrite = "full",
                         !.res.body = ResWrite(g.method, g.res.body, chunk)]
          ELSE [g EXCEPT !.pc = "stream", !.writes = g.writes + 1, !.lastWrite = "ok",
                         !.res.body = ResWrite(g.method, g.res.body, chunk),
                         !.offset = g.offset + chunkSize]

\* the Range test of the handler: start >= length || end >= length || start > end
RangeUnsatisfiableNoEnd(start, end, len) == JsGe(start, Num(len)) \/ JsGt(start, end)
RangeUnsatisfiable(start, end, len) ==
  JsGe(start, Num(len)) \/ JsGe(end, Num(len)) \/ JsGt(start, end)

\* mimeType.startsWith('text/'), over the types MimeLookup yields
IsTextMime(mimeType) == mimeType \in {"text/plain", "text/html"}

\* isHtmlFile || forceText of the GET handler
ForcedTextQueryOnly(g) == g.text = S_true \/ g.plain = S_true
ForcedText(g) ==
  LET extension == ToLowerCase(SliceFrom(Extname(g.filename), 1))
  IN \/ extension = S_html \/ extension = S_htm
     \/ g.text = S_true \/ g.plain = S_true

\* the bounds the handler parses from the Range header of a body of len bytes
RangeParts(range) == Split(ReplaceFirst(range, S_bytesEq), "-")
RangeStart(range) == ParseInt(RangeParts(range)[1])
RangeEnd(range, len) ==
  IF Len(RangeParts(range)) >= 2 /\ RangeParts(range)[2] # <<>>
  THEN ParseInt(RangeParts(range)[2])
  ELSE Num(len - 1)

\* the body of a 206: result.data.slice(start, end + 1)
RangeBodyExclusive(data, start, end) == BufSlice(data, start, end)
RangeBody(data, start, end) ==
  BufSlice(data, start, IF end.nan THEN NaN ELSE Num(end.v + 1))

\* the GET handler from the point where result.data is in hand
ServeFile(g0, data, w) ==
  LET g == [g0 EXCEPT !.data = data]
      len == BufLen(data)
      extension == ToLowerCase(SliceFrom(Extname(g.filename), 1))
      mimeType == IF ForcedText(g) THEN "text/plain" ELSE MimeLookup(extension)
      headers == [NoRes EXCEPT !.ctype = mimeType, !.clen = Length(Num(len)),
                               !.cache = "public, max-age=31536000", !.accept = "bytes"]
      start == RangeStart(g.range)
      end == RangeEnd(g.range, len)
      whole == [headers EXCEPT !.status = 200, !.cdisp = ContentDisposition(g.filename)]
  IN IF g.range # <<>> /\ ~ForcedText(g)
     THEN IF RangeUnsatisfiable(start, end, len)
          THEN [g EXCEPT !.pc = "done",
                         !.res = [NoRes EXCEPT !.status = 416, !.ended = TRUE,
                                               !.crange = ContentRangeUnsatisfied(len)]]
          ELSE [g EXCEPT !.pc = "done",
                         !.res = [headers EXCEPT !.status = 206, !.ended = TRUE,
                                    !.crange = ContentRangeOf(start, end, len),
                                    !.clen = Length(JsChunkSize(start, end)),
                                    !.body = ResWrite(g.method, <<>>,
                                                      RangeBody(data, start, end))]]
     ELSE IF ForcedText(g) \/ IsTextMime(mimeType) \/ ~(len > 5 * MiB)
          THEN [g EXCEPT !.pc = "done",
                         !.res = [whole EXCEPT !.ended = TRUE,
                                               !.body = ResWrite(g.method, <<>>, data)]]
          ELSE SendChunk([g EXCEPT !.res = whole, !.offset = 0], w)

\* the app.head handler once checkFileExists has answered with a size (the
\* handler a HEAD request would run were its route the first to handle it)
ServeHead(g, size) ==
  LET extension == SliceFrom(Extname(g.filename), 1)
      isHtmlFile == extension = S_html \/ extension = S_htm
      forceText == g.text = S_true \/ g.plain = S_true
      mimeType == IF isHtmlFile \/ forceText THEN "text/plain" ELSE MimeLookup(extension)
  IN [g EXCEPT !.pc = "done",
               !.res = [NoRes EXCEPT !.status = 200, !.ctype = mimeType,
                                     !.clen = Length(Num(size)), !.ended = TRUE,
                                     !.cache = "public, max-age=31536000",
                                     !.accept = "bytes"]]

\* the /api/info handler once checkFileExists has answered with a size
ServeInfo(g, size) ==
  LET extension == ToLowerCase(SliceFrom(Extname(g.filename), 1))
  IN [g EXCEPT !.pc = "done",
               !.res = [NoRes EXCEPT !.status = 200, !.ctype = "application/json",
                                     !.ended = TRUE,
                                     !.info = [size |-> size, type |-> MimeLookup(extension),
                                               isHtml |-> extension = S_html
                                                            \/ extension = S_htm]]]

\* The request arrives: the handler runs to its first await, the call of
\* checkFileExists, or answers 404 to a name it refuses outright.
GetStart(r, method, filename, text, plain, range) ==
  /\ get[r].pc = "idle"
  /\ LET g == [IdleReq EXCEPT !.method = method, !.filename = filename, !.text = text,
                              !.plain = plain, !.range = range,
                              !.expect = IF up.pc = "done" /\ up.res.status = 200
                                            /\ up.res.filename = filename
                                         THEN up.buffer ELSE "none"]
     IN get' = [get EXCEPT ![r] =
                  IF BasicInvalid(filename)
                  THEN [g EXCEPT !.pc = "done",
                                 !.res = IF RouteHandler(method) \in {"get", "info"}
                                         THEN Reply(method, JsonError(404, "Invalid filename"))
                                         ELSE EndOnly(404)]
                  ELSE [g EXCEPT !.pc = "check"]]
  /\ UNCHANGED <<store, now, faults, uploads, up, log>>

\* what the handler does when checkFileExists returns null
NotFoundAfterCheckContinues(g) == [g EXCEPT !.pc = "fetch", !.i = 0]
NotFoundAfterCheck(g) ==
  [g EXCEPT !.pc = "done",
            !.res = IF RouteHandler(g.method) \in {"get", "info"}
                    THEN Reply(g.method, JsonError(404, "File not found"))
                    ELSE EndOnly(404)]

\* the loop bound of checkFileExists and getFileWithRetry (maxRetries = 3)
maxRetries == 3

\* One attempt of checkFileExists: getFileInfo answers.  A failed attempt
\* moves to the next one, the third failure ends the loop with null.
GetCheck(r) ==
  LET g == get[r]
      failed(h) == IF h.i + 1 < maxRetries
                   THEN RetryWait([h EXCEPT !.i = h.i + 1], "getFileInfo")
                   ELSE NotFoundAfterCheck([h EXCEPT !.i = h.i + 1])
  IN /\ g.pc = "check"
     /\ IF ~getFileInfoCallsBackend(g.filename)
        THEN /\ get' = [get EXCEPT ![r] = failed(g)]
             /\ UNCHANGED faults
        ELSE \E o \in ContentOutcomes(g.filename) :
               LET h == [g EXCEPT !.infoCalls = g.infoCalls + 1,
                                  !.faulted = g.faulted \/ o = "fault"]
               IN /\ faults' = IF o = "fault" THEN faults + 1 ELSE faults
                  /\ get' = [get EXCEPT ![r] =
                       IF o = "ok"
                       THEN IF RouteHandler(g.method) = "get"
                            THEN [h EXCEPT !.pc = "fetch", !.i = 0, !.found = TRUE]
                            ELSE IF RouteHandler(g.method) = "info"
                            THEN ServeInfo([h EXCEPT !.found = TRUE],
                                           SizeOf(store[g.filename]))
                            ELSE ServeHead([h EXCEPT !.found = TRUE],
                                           SizeOf(store[g.filename]))
                       ELSE failed(h)]
     /\ UNCHANGED <<store, now, uploads, up, log>>

\* what the handler does when getFileWithRetry returns null
FetchFailedTriesAgain(g) ==
  IF g.i < maxRetries + 1 THEN [g EXCEPT !.pc = "fetch"]
  ELSE [g EXCEPT !.pc = "done",
                 !.res = Reply(g.method, JsonError(404, "File not found or corrupted"))]
FetchFailed(g) ==
  [g EXCEPT !.pc = "done",
            !.res = Reply(g.method, JsonError(404, "File not found or corrupted"))]

\* the size above which getFileFromGitHub downloads instead of decoding the
\* inline base64 content
UsesDownloadAboveFive(size) == size > 5 * MiB
UsesDownload(size) == size > MiB

\* One attempt of getFileWithRetry: getContent answers.  A small file is
\* decoded from the inline content and served; a large one is downloaded.
GetFetch(r, w) ==
  LET g == get[r]
      failed(h) == IF h.i + 1 < maxRetries
                   THEN RetryWait([h EXCEPT !.i = h.i + 1], "getFileFromGitHub")
                   ELSE FetchFailed([h EXCEPT !.i = h.i + 1])
  IN /\ g.pc = "fetch"
     /\ IF ~getFileInfoCallsBackend(g.filename)
        THEN /\ get' = [get EXCEPT ![r] = failed(g)]
             /\ UNCHANGED faults
        ELSE \E o \in ContentOutcomes(g.filename) :
               LET h == [g EXCEPT !.contentCalls = g.contentCalls + 1,
                                  !.faulted = g.faulted \/ o = "fault"]
               IN /\ faults' = IF o = "fault" THEN faults + 1 ELSE faults
                  /\ get' = [get EXCEPT ![r] =
                       IF o = "ok"
                       THEN IF UsesDownload(SizeOf(store[g.filename]))
                            THEN [h EXCEPT !.pc = "download"]
                            ELSE ServeFile(h, Base64Decode(Base64Encode(
                                              WholeBuffer(store[g.filename]))), w)
                       ELSE failed(h)]
     /\ UNCHANGED <<store, now, uploads, up, log>>

\* fetch(download_url) answers: the bytes stored under the key now, or a failure.
GetDownload(r, w) ==
  LET g == get[r]
      failed(h) == IF h.i + 1 < maxRetries
                   THEN RetryWait([h EXCEPT !.pc = "fetch", !.i = h.i + 1], "getFileFromGitHub")
                   ELSE FetchFailed([h EXCEPT !.i = h.i + 1])
  IN /\ g.pc = "download"
     /\ \E o \in DownloadOutcomes :
          LET h == [g EXCEPT !.downloadCalls = g.downloadCalls + 1,
                             !.faulted = g.faulted \/ o = "fault"]
          IN /\ faults' = IF o = "fault" THEN faults + 1 ELSE faults
             /\ get' = [get EXCEPT ![r] =
                  IF o = "ok" THEN ServeFile(h, WholeBuffer(store[g.filename]), w)
                  ELSE failed(h)]
     /\ UNCHANGED <<store, now, uploads, up, log>>

\* setImmediate(sendChunk): the next chunk, or the end of the response
GetSendChunk(r, w) ==
  /\ get[r].pc = "stream"
  /\ get' = [get EXCEPT ![r] = SendChunk(get[r], w)]
  /\ UNCHANGED <<store, now, faults, uploads, up, log>>

\* the transport's drain event: the offset advances and sendChunk is scheduled
GetDrainNoAdvance(r) ==
  /\ get[r].pc = "drain"
  /\ get' = [get EXCEPT ![r] = [@ EXCEPT !.pc = "stream", !.lastWrite = "drained"]]
  /\ UNCHANGED <<store, now, faults, uploads, up, log>>
GetDrainShared(r) ==
  /\ get[r].pc = "drain"
  /\ get' = [q \in Reqs |->
               IF q = r THEN [get[q] EXCEPT !.pc = "stream", !.lastWrite = "drained",
                                            !.offset = @ + MiB]
               ELSE IF get[q].pc \in {"stream", "drain"}
                    THEN [get[q] EXCEPT !.offset = @ + MiB]
                    ELSE get[q]]
  /\ UNCHANGED <<store, now, faults, uploads, up, log>>
GetDrain(r) ==
  /\ get[r].pc = "drain"
  /\ get' = [get EXCEPT ![r] = [@ EXCEPT !.pc = "stream", !.lastWrite = "drained",
                                         !.offset = @ + MiB]]
  /\ UNCHANGED <<store, now, faults, uploads, up, log>>

\* the response has been delivered and the connection serves the next request
GetCloseScrubs(r) ==
  /\ get[r].pc = "done"
  /\ get' = [get EXCEPT ![r] = IdleReq]
  /\ store' = [k \in DOMAIN store |-> "tiny"]
  /\ UNCHANGED <<now, faults, uploads, up, log>>
GetClose(r) ==
  /\ get[r].pc = "done"
  /\ get' = [get EXCEPT ![r] = IdleReq]
  /\ UNCHANGED <<store, now, faults, uploads, up, log>>

WriteOutcomes == {"ok", "full"}

\* ------------------------------------------------------ POST /api/upload

S_dot_mp4 == <<".","m","p","4">>
S_dot_m4v == <<".","m","4","v">>
S_dot_avi == <<".","a","v","i">>
S_dot_mov == <<".","m","o","v">>
S_dot_wmv == <<".","w","m","v">>
S_dot_flv == <<".","f","l","v">>
S_dot_webm == <<".","w","e","b","m">>
S_dot_mkv == <<".","m","k","v">>
S_dot_3gp == <<".","3","g","p">>
S_dot_html == <<".","h","t","m","l">>
S_dot_htm == <<".","h","t","m">>

\* detectFileType: the extension it returns for a buffer and its file name
detectFileType(c, originalFilename) ==
  LET detected == Sniff(c) # <<>>
      fileExt == ToLowerCase(SliceFrom(Extname(originalFilename), 1))
      extension == IF detected THEN Sniff(c)
                   ELSE IF originalFilename # <<>> /\ fileExt # <<>> THEN fileExt
                   ELSE S_bin
      filename == ToLowerCase(originalFilename)
  IN IF extension = S_bin \/ ~detected
     THEN IF EndsWith(filename, S_dot_mp4) \/ EndsWith(filename, S_dot_m4v) THEN S_mp4
          ELSE IF EndsWith(filename, S_dot_avi) THEN Tail(S_dot_avi)
          ELSE IF EndsWith(filename, S_dot_mov) THEN Tail(S_dot_mov)
          ELSE IF EndsWith(filename, S_dot_wmv) THEN Tail(S_dot_wmv)
          ELSE IF EndsWith(filename, S_dot_flv) THEN Tail(S_dot_flv)
          ELSE IF EndsWith(filename, S_dot_webm) THEN Tail(S_dot_webm)
          ELSE IF EndsWith(filename, S_dot_mkv) THEN Tail(S_dot_mkv)
          ELSE IF EndsWith(filename, S_dot_3gp) THEN Tail(S_dot_3gp)
          ELSE IF EndsWith(filename, S_dot_html) \/ EndsWith(filename, S_dot_htm) THEN S_html
          ELSE extension
     ELSE extension

NoUpRes == [status |-> 0, filename |-> <<>>, error |-> "", details |-> ""]

\* error.message of what the backend client throws, by outcome of the call,
\* and the messages of the errors uploadToGitHub throws itself
BackendErrorMessage(o) ==
  CASE o = "fault" -> "connect ETIMEDOUT api.github.com:443"
    [] o = "refused" -> "Invalid request. \"sha\" wasn't supplied."
    [] o = "404" -> "Not Found"
TooLargeMessage == "File too large for GitHub API (max 100MB)"
InvalidBufferMessage == "Invalid or empty buffer"
\* the repository with nothing under files/
EmptyStoreSeeded ==
  [k \in {generateShortFilename(Md5Hex8("tiny"), [hi |-> 1012136, lo |-> 777600], S_pdf, <<>>)}
     |-> "tiny"]
EmptyStore == [k \in {} |-> "none"]
IdleUp == [pc |-> "idle", buffer |-> "none", name |-> <<>>, extension |-> <<>>,
           i |-> 0, filename |-> <<>>, stamp |-> [hi |-> 0, lo |-> 0],
           sha |-> "none", checkFault |-> FALSE, res |-> NoUpRes, before |-> EmptyStore,
           attempts |-> 0, oks |-> 0, checkCalls |-> 0, putCalls |-> 0, waits |-> 0]

\* the request carries no file part: !req.file
NoFile == "none"

\* the handler's test of the buffer (!buffer || buffer.length === 0) and the
\* same test at the head of uploadToGitHub
EmptyFileNever(c) == FALSE
EmptyFile(c) == SizeOf(c) = 0
InvalidBuffer(c) == SizeOf(c) = 0

\* the size test of uploadToGitHub: buffer.length > 100 * 1024 * 1024
RejectsTooLargeNever(size) == FALSE
RejectsTooLarge(size) == size > 100 * MiB

\* the backend's fingerprint of a stored object
ShaOf(c) == c

\* The request arrives: one without a file, or with an empty buffer, is
\* refused with 400; otherwise the type is detected and the retry loop starts.
UploadStart(c, originalFilename) ==
  /\ up.pc \in {"idle", "done"}
  /\ uploads < MaxUploads
  /\ uploads' = uploads + 1
  /\ up' = IF c = NoFile
           THEN [IdleUp EXCEPT !.pc = "done", !.before = store,
                               !.res = [NoUpRes EXCEPT
                                          !.status = 400, !.error = "No file uploaded",
                                          !.details = "Please select a file to upload"]]
           ELSE IF EmptyFile(c)
           THEN [IdleUp EXCEPT !.pc = "done", !.buffer = c, !.name = originalFilename,
                               !.before = store,
                               !.res = [NoUpRes EXCEPT
                                          !.status = 400, !.error = "Empty file",
                                          !.details = "The uploaded file appears to be empty"]]
           ELSE [IdleUp EXCEPT !.pc = "attempt", !.buffer = c, !.name = originalFilename,
                               !.before = store,
                               !.extension = detectFileType(c, originalFilename)]
  /\ UNCHANGED <<store, now, faults, get, log>>

\* a failed attempt of uploadToGitHub: the loop goes on, and after the third
\* the handler answers 500
UploadAttemptFailedFourTimes(u, msg) ==
  IF u.i + 1 < 4 THEN RetryWait([u EXCEPT !.pc = "attempt", !.i = u.i + 1], "uploadToGitHub")
  ELSE [u EXCEPT !.pc = "done", !.i = u.i + 1,
                 !.res = [NoUpRes EXCEPT !.status = 500, !.error = "Upload failed",
                                         !.details = msg]]
UploadAttemptFailed(u, msg) ==
  IF u.i + 1 < 3 THEN RetryWait([u EXCEPT !.pc = "attempt", !.i = u.i + 1], "uploadToGitHub")
  ELSE [u EXCEPT !.pc = "done", !.i = u.i + 1,
                 !.res = [NoUpRes EXCEPT !.status = 500, !.error = "Upload failed",
                                         !.details = msg]]

\* uploadToGitHub up to its first await: the tests of the buffer, the
\* identifier from the buffer and the clock, and the call that looks for an
\* existing file
UploadAttempt ==
  /\ up.pc = "attempt"
  /\ LET u == [up EXCEPT !.attempts = up.attempts + 1]
     IN up' = IF InvalidBuffer(up.buffer)
              THEN UploadAttemptFailed(u, InvalidBufferMessage)
              ELSE IF RejectsTooLarge(SizeOf(up.buffer))
              THEN UploadAttemptFailed(u, TooLargeMessage)
              ELSE [u EXCEPT !.pc = "check", !.stamp = now, !.checkFault = FALSE,
                             !.filename = generateShortFilename(Md5Hex8(up.buffer), now,
                                                                up.extension, up.name)]
  /\ UNCHANGED <<store, now, faults, uploads, get, log>>

\* getContent answers the existence check: the sha of the stored object, or
\* a 404, or another error, which is logged; either way the write follows.
UploadCheck ==
  /\ up.pc = "check"
  /\ \E o \in ContentOutcomes(up.filename) :
       /\ faults' = IF o = "fault" THEN faults + 1 ELSE faults
       /\ up' = [up EXCEPT !.pc = "put", !.checkCalls = up.checkCalls + 1,
                           !.checkFault = (o = "fault"),
                           !.sha = IF o = "ok" THEN ShaOf(store[up.filename]) ELSE "none"]
  /\ UNCHANGED <<store, now, uploads, get, log>>

\* What createOrUpdateFileContents answers: it creates a missing key, replaces
\* a stored one when given its sha, refuses otherwise, or fails.
PutOutcomes(filename, sha) ==
  (IF filename \in DOMAIN store
   THEN (IF sha = ShaOf(store[filename]) THEN {"ok"} ELSE {"refused"})
   ELSE {"ok"})
    \cup (IF faults < MaxFaults THEN {"fault"} ELSE {})

\* the store after buffer c was written under the key
StorePut(filename, c) ==
  [k \in DOMAIN store \cup {filename} |-> IF k = filename THEN c ELSE store[k]]

\* createOrUpdateFileContents answers.  Besides the answers of PutOutcomes,
\* a write in Lost is applied by the backend while its answer does not come
\* back (the request times out), so that the call throws.
UploadPutWith(Lost) ==
  /\ up.pc = "put"
  /\ \E o \in PutOutcomes(up.filename, up.sha)
               \cup (IF faults < MaxFaults /\ "ok" \in PutOutcomes(up.filename, up.sha)
                     THEN Lost ELSE {}) :
       LET u == [up EXCEPT !.putCalls = up.putCalls + 1]
           applied == o \in {"ok", "lost"}
           failure == IF o = "lost" THEN "fault" ELSE o
       IN /\ faults' = IF o \in {"fault", "lost"} THEN faults + 1 ELSE faults
          /\ store' = IF applied
                      THEN StorePut(up.filename,
                                    Base64Decode(Base64Encode(WholeBuffer(up.buffer))).data)
                      ELSE store
          /\ up' = IF o = "ok"
                   THEN [u EXCEPT !.pc = "done", !.oks = up.oks + 1,
                                  !.res = [NoUpRes EXCEPT !.status = 200,
                                                          !.filename = up.filename]]
                   ELSE UploadAttemptFailed(u, BackendErrorMessage(failure))
          /\ log' = IF o = "ok"
                    THEN log \cup {[id |-> up.filename, buffer |-> up.buffer,
                                     stamp |-> up.stamp]}
                    ELSE log
  /\ UNCHANGED <<now, uploads, get>>

UploadPut == UploadPutWith({})

\* time passes
Tick ==
  /\ \E t \in ClockValues : Later(t, now) /\ now' = t
  /\ UNCHANGED <<store, faults, uploads, up, get, log>>

\* ------------------------------------------------------------ the inputs

\* the clock at start-up
StartClock == [hi |-> 1012136, lo |-> 777600]

\* file names a client uploads under
N_doc_pdf == <<"d","o","c",".","p","d","f">>
N_page_html == <<"p","a","g","e",".","h","t","m","l">>
N_clip_mp4 == <<"c","l","i","p",".","m","p","4">>
N_note_txt == <<"n","o","t","e",".","t","x","t">>
N_pic_png == <<"p","i","c",".","p","n","g">>
N_manifest == <<"a","p","p",".","w","e","b","m","a","n","i","f","e","s","t">>
N_readme == <<"R","E","A","D","M","E">>
UploadNames == {N_doc_pdf, N_page_html, N_clip_mp4, N_manifest, N_readme}
UploadContents == {"empty", "tiny", "pic", "film", "huge"}

\* the identifier an upload of content c under a name gets at the start-up clock
IdOf(c, name) == generateShortFilename(Md5Hex8(c), StartClock, detectFileType(c, name), name)

\* identifiers of blobs uploaded before start-up, and the repository holding them
K_note == IdOf("note", N_note_txt)
K_page == IdOf("note", N_page_html)
K_pic == IdOf("pic", N_pic_png)
K_film == IdOf("film", N_clip_mp4)
K_slab == IdOf("slab", N_doc_pdf)
ServeStore ==
  [k \in {K_note, K_page, K_slab, K_pic, K_film} |->
     IF k = K_pic THEN "pic" ELSE IF k = K_film THEN "film"
     ELSE IF k = K_slab THEN "slab" ELSE "note"]

\* names a client may ask for that are not stored
K_absent == IdOf("tiny", N_doc_pdf)
K_upper == [i \in DOMAIN K_page |-> IF i > 15 THEN UpperSeq[IndexOf(K_page[i], LowerSeq)]
                                     ELSE K_page[i]]
K_longext == IdOf("tiny", N_manifest)
K_traversal == K_pic \o <<"/",".",".","/","x">>
K_dots == K_pic \o <<".",".","x">>
K_backslash == K_pic \o <<"\\","x">>
K_plain == N_note_txt
K_dash == SubSeq(K_note, 1, 15) \o <<"t","-","x">>
BadNames == {K_longext, K_traversal, K_dots, K_backslash, K_plain, K_dash, S_dotdot}

\* Range headers
RangeHeader(a, b) == S_bytesEq \o ToStringRadix(a, 10) \o <<"-">> \o ToStringRadix(b, 10)
FullRange(size) == RangeHeader(0, size - 1)
BeyondRange(size) == RangeHeader(size, size + 10)
R_open == S_bytesEq \o <<"5","-">>
R_suffix == S_bytesEq \o <<"-","5">>
R_letters == S_bytesEq \o <<"a","b","c","-">>
R_badend == S_bytesEq \o <<"2","-","x">>
StoredSizes == { SizeOf(ServeStore[k]) : k \in DOMAIN ServeStore }
ServeRanges ==
  {<<>>, RangeHeader(10, 5), RangeHeader(2, 5), RangeHeader(0, 0), RangeHeader(0, 12),
   R_open, R_suffix, R_letters, R_badend}
    \cup { FullRange(n) : n \in StoredSizes } \cup { BeyondRange(n) : n \in StoredSizes }

S_one == <<"1">>
\* query strings: none, ?text=true, ?plain=true, ?text=1
Queries == { <<<<>>, <<>>>>, <<S_true, <<>>>>, <<<<>>, S_true>>, <<S_one, <<>>>> }

\* ----------------------------------------------------- the specifications

InitCommon ==
  /\ now = StartClock
  /\ faults = 0
  /\ uploads = 0
  /\ up = IdleUp
  /\ get = [r \in Reqs |-> IdleReq]
  /\ log = {}

\* The server starts against an empty repository.
Init == InitCommon /\ store = EmptyStore

GetStepsWith(r, W) ==
  \/ GetCheck(r)
  \/ \E w \in W : GetFetch(r, w)
  \/ \E w \in W : GetDownload(r, w)
  \/ \E w \in W : GetSendChunk(r, w)
  \/ GetDrain(r)
  \/ GetClose(r)

GetSteps(r) == GetStepsWith(r, WriteOutcomes)

Next ==
  \/ uploads < MaxRoundTrips /\ \E c \in UploadContents, n \in UploadNames : UploadStart(c, n)
  \/ UploadAttempt
  \/ UploadCheck
  \/ UploadPut
  \/ Tick
  \/ \E m \in {"GET", "HEAD"}, f \in DOMAIN store \cup {K_absent},
        t \in {<<>>, S_true}, h \in {<<>>, RangeHeader(0, 2)} :
        GetStart(1, m, f, t, <<>>, h)
  \/ GetSteps(1)

Spec == Init /\ [][Next]_vars

\* The server starts against a repository that holds earlier uploads, and
\* serves one request at a time from it.
InitServe == InitCommon /\ store = ServeStore

NextServe ==
  \/ \E m \in {"GET", "HEAD"}, f \in DOMAIN ServeStore \cup {K_absent, K_upper} \cup BadNames,
        q \in Queries, h \in ServeRanges :
        GetStart(1, m, f, q[1], q[2], h)
  \/ GetSteps(1)

SpecServe == InitServe /\ [][NextServe]_vars

\* Two requests are served concurrently from that repository.
PairRanges == {<<>>, FullRange(SizeOf("note")), FullRange(SizeOf("film"))}

NextPair ==
  \/ \E r \in Reqs, f \in {K_note, K_page, K_film}, t \in {<<>>, S_true}, h \in PairRanges :
        GetStart(r, "GET", f, t, <<>>, h)
  \/ \E r \in Reqs : GetSteps(r)

SpecPair == InitServe /\ [][NextPair]_vars

\* A GET and a HEAD of the same name, query and Range header are served
\* side by side from that repository.
TwinNames == {K_note, K_page, K_film, K_absent, K_traversal}
TwinRanges == {<<>>, RangeHeader(2, 5), RangeHeader(10, 5), BeyondRange(SizeOf("film"))}

NextTwin ==
  \/ \E f \in TwinNames, t \in {<<>>, S_true}, h \in TwinRanges :
        GetStart(1, "GET", f, t, <<>>, h)
  \/ /\ get[1].pc # "idle"
     /\ GetStart(2, "HEAD", get[1].filename, get[1].text, get[1].plain, get[1].range)
  \/ \E r \in Reqs : GetSteps(r)

SpecTwin == InitServe /\ [][NextTwin]_vars

\* The server takes uploads, one after the other, into an empty repository.
UploadFiles == {NoFile, "empty", "tiny", "note", "huge"}
UploadAs == {N_doc_pdf, N_manifest}

NextUpload ==
  \/ \E c \in UploadFiles, n \in UploadAs : UploadStart(c, n)
  \/ UploadAttempt
  \/ UploadCheck
  \/ UploadPut
  \/ Tick

SpecUpload == Init /\ [][NextUpload]_vars

\* The same, with a backend whose answer to a write it applied may be lost.
RetryFiles == {"tiny", "note"}

NextRetry ==
  \/ \E c \in RetryFiles : UploadStart(c, N_doc_pdf)
  \/ UploadAttempt
  \/ UploadCheck
  \/ UploadPutWith({"lost"})
  \/ Tick

SpecRetry == Init /\ [][NextRetry]_vars

\* One request at a time is served from that repository; setImmediate runs
\* every scheduled sendChunk, and the transport's drain event fires after
\* every write that returned false.
DeliverNames == {K_film, K_pic, K_note}

NextDeliver ==
  \/ \E m \in {"GET", "HEAD"}, f \in DeliverNames, h \in {<<>>, RangeHeader(2, 5)} :
        GetStart(1, m, f, <<>>, <<>>, h)
  \/ GetSteps(1)

FairDeliver ==
  /\ WF_vars(\E w \in WriteOutcomes : GetSendChunk(1, w))
  /\ WF_vars(GetDrain(1))

SpecDeliver == InitServe /\ [][NextDeliver]_vars /\ FairDeliver

\* One request at a time is served from that repository over a transport
\* whose writes may also throw.
StreamNames == {K_film, K_pic, K_note, K_absent, K_traversal}
StreamRanges == {<<>>, RangeHeader(2, 5), RangeHeader(10, 5)}

NextStream ==
  \/ \E m \in {"GET", "HEAD"}, f \in StreamNames, h \in StreamRanges :
        GetStart(1, m, f, <<>>, <<>>, h)
  \/ GetStepsWith(1, WriteOutcomes \cup {"throw"})

SpecStream == InitServe /\ [][NextStream]_vars

\* The server takes an upload into an empty repository while names are
\* looked up by GET, HEAD and /api/info.
LookupNames == {K_absent, K_film}
LookupUploads == {<<"film", N_clip_mp4>>}

NextLookup ==
  \/ uploads < MaxRoundTrips /\ \E u \in LookupUploads : UploadStart(u[1], u[2])
  \/ UploadAttempt
  \/ UploadCheck
  \/ UploadPut
  \/ \E m \in {"GET", "HEAD", "INFO"}, f \in LookupNames :
        GetStart(1, m, f, <<>>, <<>>, <<>>)
  \/ \E m \in {"INFO"}, f \in LookupNames :
        GetStart(2, m, f, <<>>, <<>>, <<>>)
  \/ \E r \in Reqs : GetSteps(r)

SpecLookup == Init /\ [][NextLookup]_vars

\* uploadToGitHub is called with a buffer, a file name and any declared
\* extension.
DeclaredExtensions ==
  {<<>>, S_bin, S_pdf, <<".","P","D","F">>, <<"B","I","N">>, <<".","b","i","n">>,
   S_dot, <<"P","n","G">>}
N_archive == <<"a",".","t","a","r",".","G","Z">>
N_trailing == <<"d","o","c",".">>
N_hidden == <<".","e","n","v">>
CallNames == {<<>>, N_doc_pdf, N_readme, N_archive, N_trailing, N_hidden, N_manifest}

InitCall ==
  /\ store = EmptyStore /\ faults = 0 /\ uploads = 0 /\ log = {}
  /\ get = [r \in Reqs |-> IdleReq]
  /\ now \in ClockValues
  /\ \E c \in {"tiny", "pic"}, n \in CallNames, e \in DeclaredExtensions :
       up = [IdleUp EXCEPT !.pc = "attempt", !.buffer = c, !.name = n, !.extension = e]

NextCall == UploadAttempt \/ UploadCheck \/ UploadPut

SpecCall == InitCall /\ [][NextCall]_vars

\* ------------------------------------------------------------ the claims

\* a GET request that has been answered
Answered(g) == g.pc = "done" /\ g.method = "GET"
\* a GET request answered from the bytes of a blob that was found and fetched
Served(g) == Answered(g) /\ g.data # NoBuffer
\* the name ends in .html or .htm, in either case
IsHtmlName(filename) ==
  EndsWith(ToLowerCase(filename), S_dot_html) \/ EndsWith(ToLowerCase(filename), S_dot_htm)

\* C1: after a successful upload of a non-empty buffer B, an unranged GET of
\* the identifier the upload returned, met by no backend failure, answers 200
\* with Content-Length = size of B and a body that is exactly B.
C1_RoundTrip ==
  \A r \in Reqs :
    LET g == get[r]
    IN (Answered(g) /\ g.expect # "none" /\ g.range = <<>> /\ ~g.faulted)
         => /\ g.res.status = 200
            /\ g.res.clen = Length(Num(SizeOf(g.expect)))
            /\ g.res.body = <<WholeBuffer(g.expect)>>

\* C1, for the identifiers the validator accepts: the round trip holds.
C1_RoundTripOfValidIdentifiers ==
  \A r \in Reqs :
    LET g == get[r]
    IN (Answered(g) /\ g.expect # "none" /\ g.range = <<>> /\ ~g.faulted
          /\ isValidFilename(g.filename))
         => /\ g.res.status = 200
            /\ g.res.clen = Length(Num(SizeOf(g.expect)))
            /\ g.res.body = <<WholeBuffer(g.expect)>>

C3_GeneratedIsValid ==
  (up.pc \in {"check", "put", "done"} /\ up.filename # <<>>)
    => /\ isValidFilename(up.filename)
       /\ SubSeq(up.filename, 1, 2) = S_J
       /\ \A i \in 3..10 : up.filename[i] \in DigitChars \cup {"a","b","c","d","e","f"}
       /\ \A i \in 11..14 : up.filename[i] \in DigitChars \cup LowerChars
       /\ Len(up.filename) \in 16..25

\* C4: a GET whose name fails isValidFilename is answered 404, and at no point
\* of the request has a backend call (getContent, download) been made for it.
C4_InvalidNameNoBackend ==
  \A r \in Reqs :
    LET g == get[r]
    IN (g.pc # "idle" /\ g.method = "GET" /\ ~isValidFilename(g.filename))
         => /\ g.infoCalls = 0 /\ g.contentCalls = 0 /\ g.downloadCalls = 0
            /\ g.pc \notin {"fetch", "download", "stream", "drain"}
            /\ (g.pc = "done" => g.res.status = 404 /\ g.res.body = <<>>)

\* C4 witness: a name that passes the handler's first test but not
\* isValidFilename went through all three attempts of checkFileExists and
\* was answered 404 without a backend call.
C4_Witness ==
  /\ Answered(get[1]) /\ ~BasicInvalid(get[1].filename) /\ ~isValidFilename(get[1].filename)
  /\ get[1].i = maxRetries /\ get[1].res.status = 404 /\ get[1].infoCalls = 0

\* C5: within a GET the body fetch is attempted only after an existence check
\* has succeeded; when the existence check finds the blob absent the request
\* is answered 404 and no body fetch is ever attempted.
C5_FetchOnlyAfterFound ==
  \A r \in Reqs :
    LET g == get[r]
    IN /\ (g.pc \in {"fetch", "download", "stream", "drain"} \/ g.contentCalls > 0
             \/ g.downloadCalls > 0 \/ g.data # NoBuffer)
          => (g.found /\ g.infoCalls > 0)
       /\ (Answered(g) /\ ~g.found)
          => (g.res.status = 404 /\ g.contentCalls = 0 /\ g.downloadCalls = 0)

\* C5 witness: a valid name that is not stored was looked up, found absent,
\* and answered 404 with no body fetch.
C5_Witness ==
  /\ Answered(get[1]) /\ get[1].filename = K_absent /\ ~get[1].faulted
  /\ get[1].infoCalls = maxRetries /\ get[1].contentCalls = 0 /\ get[1].res.status = 404

\* a served GET carrying a Range header that is not forced to text
RangeServed(g) ==
  /\ Served(g) /\ g.range # <<>>
  /\ ~IsHtmlName(g.filename) /\ g.text # S_true /\ g.plain # S_true
\* the header's bounds parsed to numbers
NumericRange(g) ==
  ~RangeStart(g.range).nan /\ ~RangeEnd(g.range, BufLen(g.data)).nan

\* C6: for a found blob of size S served with a Range header and not forced to
\* text, if the parsed start or end is a number outside [0, S-1] or start > end,
\* the answer is 416 with Content-Range: bytes */S and no body.
C6_OutOfRangeIs416 ==
  \A r \in Reqs :
    LET g == get[r]
        S == BufLen(g.data)
        start == RangeStart(g.range).v
        end == RangeEnd(g.range, S).v
    IN (RangeServed(g) /\ NumericRange(g)
          /\ (start < 0 \/ start > S - 1 \/ end < 0 \/ end > S - 1 \/ start > end))
         => /\ g.res.status = 416
            /\ g.res.crange = S_bytesSp \o <<"*", "/">> \o ToStringRadix(S, 10)
            /\ g.res.body = <<>>
            /\ g.res.ended

\* C6 witness: bytes=S-(S+10) on the 12-byte blob, and bytes=10-5, were
\* answered 416.
C6_Witness ==
  /\ RangeServed(get[1]) /\ get[1].filename = K_note
  /\ get[1].range \in {BeyondRange(12), RangeHeader(10, 5)}
  /\ get[1].res.status = 416

\* C7: for a found blob of size S and a Range bytes=<start>-<end> with
\* 0 <= start <= end <= S-1 (end = S-1 when omitted), not forced to text, the
\* answer is 206 with Content-Range: bytes <start>-<end>/S, Content-Length =
\* end-start+1 and a body that is exactly the bytes start..end of the blob.
C7_InRangeIs206 ==
  \A r \in Reqs :
    LET g == get[r]
        S == BufLen(g.data)
        start == RangeStart(g.range).v
        end == RangeEnd(g.range, S).v
    IN (RangeServed(g) /\ NumericRange(g) /\ 0 <= start /\ start <= end /\ end <= S - 1)
         => /\ g.res.status = 206
            /\ g.res.crange = S_bytesSp \o ToStringRadix(start, 10) \o <<"-">>
                                \o ToStringRadix(end, 10) \o <<"/">> \o ToStringRadix(S, 10)
            /\ g.res.clen = Length(Num(end - start + 1))
            /\ g.res.body = <<[data |-> store[g.filename], lo |-> start, hi |-> end + 1]>>
            /\ g.data = WholeBuffer(store[g.filename])

\* C7 witness: bytes=2-5 of the 12-byte blob was answered 206 with 4 bytes,
\* and so was an open-ended bytes=5- with the 7 bytes to the end.
C7_Witness ==
  /\ RangeServed(get[1]) /\ get[1].filename = K_note
  /\ \/ get[1].range = RangeHeader(2, 5) /\ get[1].res.clen = Length(Num(4))
     \/ get[1].range = R_open /\ get[1].res.clen = Length(Num(7))
  /\ get[1].res.status = 206

\* the two requests of C8: the same identifier and query, one with
\* Range bytes=0-(S-1) and one without a Range header, both served
C8_Pair(a, b) ==
  /\ Served(a) /\ Served(b)
  /\ a.filename = b.filename /\ a.text = b.text /\ a.plain = b.plain
  /\ a.range = FullRange(BufLen(a.data)) /\ b.range = <<>>

\* C8 as stated: for every stored blob, the GET with Range bytes=0-(S-1) is
\* answered 206 with the same bytes as the unranged GET, answered 200.
C8_FullRangeSameBytes ==
  \A r1, r2 \in Reqs :
    C8_Pair(get[r1], get[r2])
      => /\ get[r1].res.status = 206 /\ get[r2].res.status = 200
         /\ get[r1].res.body = get[r2].res.body

\* C8 amended: the same, for requests that are not forced to text (the
\* extension is not html or htm and the query has neither text=true nor
\* plain=true).
C8_FullRangeSameBytesUnlessText ==
  \A r1, r2 \in Reqs :
    (C8_Pair(get[r1], get[r2]) /\ RangeServed(get[r1]))
      => /\ get[r1].res.status = 206 /\ get[r2].res.status = 200
         /\ get[r1].res.body = get[r2].res.body
         /\ get[r1].res.body = <<WholeBuffer(store[get[r1].filename])>>

\* C8 witness: the blob above the chunking threshold was served whole in
\* chunks to one request and as bytes=0-(S-1) to the other.
C8_Witness ==
  /\ C8_Pair(get[1], get[2]) /\ RangeServed(get[1])
  /\ get[1].filename = K_film /\ get[2].offset > 0
  /\ get[1].res.status = 206 /\ get[2].res.status = 200

\* C9: a found identifier whose extension is html or htm is served by GET
\* with Content-Type text/plain even without a query parameter, and no
\* request (GET or HEAD) for such an identifier is answered text/html.
C9_HtmlServedAsText ==
  \A r \in Reqs :
    LET g == get[r]
    IN IsHtmlName(g.filename)
         => /\ g.res.ctype # "text/html"
            /\ Served(g) => g.res.ctype = "text/plain"
            /\ (g.pc = "done" /\ g.method = "HEAD" /\ g.data # NoBuffer)
                  => g.res.ctype = "text/plain"

\* C9 witness: GET of the stored .html identifier with no query parameter and
\* no Range header was answered 200 text/plain.
C9_Witness ==
  /\ Served(get[1]) /\ get[1].filename = K_page
  /\ get[1].text = <<>> /\ get[1].plain = <<>> /\ get[1].range = <<>>
  /\ get[1].res.status = 200 /\ get[1].res.ctype = "text/plain"

\* C10: a GET with a Range header that is forced to text (extension html or
\* htm, or query text=true or plain=true) ignores the range: it is answered
\* 200 with the full body, never 206 or 416.
C10_RangeIgnoredWhenText ==
  \A r \in Reqs :
    LET g == get[r]
    IN (Served(g) /\ g.range # <<>>
          /\ (IsHtmlName(g.filename) \/ g.text = S_true \/ g.plain = S_true))
         => /\ g.res.status = 200
            /\ g.res.body = <<WholeBuffer(store[g.filename])>>
            /\ g.res.clen = Length(Num(SizeOf(store[g.filename])))
            /\ g.res.crange = <<>>

\* C10 witness: an unsatisfiable Range on the .html blob, and a satisfiable
\* one on the .txt blob asked with ?plain=true, were both answered 200.
C10_Witness ==
  /\ Served(get[1]) /\ get[1].res.status = 200
  /\ \/ get[1].filename = K_page /\ get[1].range = BeyondRange(12) /\ get[1].text = <<>>
     \/ get[1].filename = K_note /\ get[1].range = RangeHeader(2, 5) /\ get[1].plain = S_true

\* C11: every answer of GET /:filename for a found blob (200 whole, 200
\* chunked, 206, 416) carries Accept-Ranges: bytes, Cache-Control: public,
\* max-age=31536000 and Content-Disposition: inline; filename="<identifier>".
C11_CommonHeaders ==
  \A r \in Reqs :
    LET g == get[r]
    IN Served(g)
         => /\ g.res.accept = "bytes"
            /\ g.res.cache = "public, max-age=31536000"
            /\ g.res.cdisp = ContentDisposition(g.filename)

\* the same name, query and Range header
SameRequest(a, b) ==
  a.filename = b.filename /\ a.text = b.text /\ a.plain = b.plain /\ a.range = b.range

\* a GET and a HEAD of the same request, both answered, neither met by a
\* backend failure
C12_Pair(a, b) ==
  /\ a.pc = "done" /\ a.method = "GET" /\ b.pc = "done" /\ b.method = "HEAD"
  /\ SameRequest(a, b) /\ ~a.faulted /\ ~b.faulted

\* C12: HEAD /:filename is answered with the same status, Content-Type,
\* Content-Length, Accept-Ranges, Content-Range and Content-Disposition as
\* the GET of the same name, query and Range header, and with no body.
C12_HeadMatchesGet ==
  \A r1, r2 \in Reqs :
    C12_Pair(get[r1], get[r2])
      => /\ get[r2].res.status = get[r1].res.status
         /\ get[r2].res.ctype = get[r1].res.ctype
         /\ get[r2].res.clen = get[r1].res.clen
         /\ get[r2].res.accept = get[r1].res.accept
         /\ get[r2].res.crange = get[r1].res.crange
         /\ get[r2].res.cdisp = get[r1].res.cdisp
         /\ get[r2].res.body = <<>> /\ get[r2].res.error = ""
         /\ get[r2].res.ended

\* C12 witness: bytes=2-5 of the 12-byte blob was answered 206 to the GET,
\* with its 4 bytes, and 206 to the HEAD.
C12_Witness ==
  /\ C12_Pair(get[1], get[2]) /\ get[1].filename = K_note
  /\ get[1].range = RangeHeader(2, 5) /\ get[1].text = <<>>
  /\ get[1].res.status = 206 /\ get[1].res.body # <<>>
  /\ get[2].res.status = 206 /\ get[2].res.clen = Length(Num(4))

\* every attempt of the request failed on a backend error: the key is
\* stored, so the backend never reported it absent, and no bytes came back
AllAttemptsFailed(g) ==
  /\ Answered(g) /\ g.filename \in DOMAIN store /\ isValidFilename(g.filename)
  /\ g.data = NoBuffer /\ g.faulted

\* C13: a GET whose every retrieval attempt failed because the backend
\* erred or timed out is answered 408, 502 or 503, not the 404 of a missing
\* blob.
C13_BackendFailureIsUnavailable ==
  \A r \in Reqs : AllAttemptsFailed(get[r]) => get[r].res.status \in {408, 502, 503}

\* C14: when the backend answers the existence check with 'key absent', the
\* request makes exactly one existence call and answers 404.
C14_NotFoundNotRetried ==
  \A r \in Reqs :
    LET g == get[r]
    IN (Answered(g) /\ isValidFilename(g.filename) /\ g.filename \notin DOMAIN store
          /\ ~g.faulted)
         => g.infoCalls = 1 /\ g.res.status = 404

\* an upload request whose buffer is above the 100 MiB ceiling
TooLargeUpload(u) == u.pc # "idle" /\ u.buffer # NoFile /\ SizeOf(u.buffer) > 100 * MiB

EmptyUpload(u) == u.pc # "idle" /\ (u.buffer = NoFile \/ SizeOf(u.buffer) = 0)

\* C16: an upload with an empty buffer, or with no file, is answered 400
\* before type detection, identifier generation or any backend call, and the
\* repository is as the request found it.
C16_EmptyRejected ==
  EmptyUpload(up)
    => /\ up.pc = "done" /\ up.res.status = 400
       /\ up.extension = <<>> /\ up.filename = <<>> /\ up.attempts = 0
       /\ up.checkCalls = 0 /\ up.putCalls = 0
       /\ store = up.before

\* C16 witness: an empty buffer, sent after an upload that was stored, was
\* answered 400.
C16_Witness ==
  /\ EmptyUpload(up) /\ up.buffer = "empty" /\ up.res.status = 400
  /\ up.res.error = "Empty file" /\ up.before # EmptyStore

\* C17: one upload request calls uploadToGitHub at most 3 times and stops at
\* the first call that succeeds; it is answered with success and the
\* identifier of that call if and only if a call succeeded, and 500 otherwise.
C17_AtMostThreeAttempts ==
  /\ up.attempts <= 3 /\ up.oks <= 1
  /\ up.oks = 1 => up.pc = "done"
  /\ (up.pc = "done" /\ up.attempts > 0)
       => /\ up.res.status = 200 <=> up.oks = 1
          /\ up.res.status = 200
               => /\ up.res.filename = up.filename
                  /\ [id |-> up.filename, buffer |-> up.buffer, stamp |-> up.stamp] \in log
          /\ up.res.status # 200 => up.res.status = 500 /\ up.attempts = 3

\* C17 witness: the third call succeeded after two that failed.
C17_Witness ==
  /\ up.pc = "done" /\ up.attempts = 3 /\ up.oks = 1 /\ up.res.status = 200
  /\ up.putCalls = 3

\* C18: when uploadToGitHub rejects the buffer as too large or empty, it is
\* called exactly once for that request.
C18_DefinitiveRejectionNotRetried ==
  (TooLargeUpload(up) /\ up.pc = "done") => up.attempts = 1

\* C19: the bytes stored under an identifier by an upload stay under it
\* whatever uploads follow.
C19_BlobsImmutable ==
  \A e \in log : e.id \in DOMAIN store /\ store[e.id] = e.buffer

\* the extension of an identifier
ExtOf(id) == SliceFrom(id, 15)

\* C20: two uploads of the same bytes with the same resolved extension, whose
\* identifiers were generated at different clock readings, got different
\* identifiers.
C20_DifferentClockDifferentId ==
  \A a, b \in log :
    (a.buffer = b.buffer /\ ExtOf(a.id) = ExtOf(b.id) /\ a.stamp # b.stamp) => a.id # b.id

\* the declared extension as generateShortFilename reads it: lowercased, one
\* leading dot stripped
DeclaredExt(extension) ==
  IF extension # <<>> /\ extension[1] = "."
  THEN ToLowerCase(SubSeq(extension, 2, Len(extension)))
  ELSE ToLowerCase(extension)
\* the extension of a file name: what follows its last dot, if it has a dot
NameExt(name) ==
  IF LastIndexOfChar(name, ".") = 0 THEN <<>>
  ELSE ToLowerCase(SubSeq(name, LastIndexOfChar(name, ".") + 1, Len(name)))

\* C21: the extension of the identifier is (1) the declared extension,
\* lowercased and without its leading dot, when that is non-empty and not
\* bin; (2) otherwise the lowercased extension of the original file name when
\* it has one; (3) otherwise bin.
C21_ExtensionPriority ==
  (up.pc \in {"check", "put", "done"} /\ up.filename # <<>>)
    => ExtOf(up.filename) =
         IF DeclaredExt(up.extension) # <<>> /\ DeclaredExt(up.extension) # S_bin
         THEN DeclaredExt(up.extension)
         ELSE IF NameExt(up.name) # <<>> THEN NameExt(up.name)
         ELSE S_bin

\* C21 witness: no declared extension and the file name doc.pdf gave an
\* identifier ending in .pdf, which was stored.
C21_Witness ==
  /\ up.pc = "done" /\ up.res.status = 200
  /\ up.extension = <<>> /\ up.name = N_doc_pdf /\ ExtOf(up.filename) = S_pdf

C23_CheckFailureSurfaced == up.checkFault => up.pc # "put"

\* the exception texts of the backend client
BackendExceptionTexts == { BackendErrorMessage(o) : o \in {"fault", "refused"} }

\* C24: no answer of the upload endpoint carries the message text of an
\* internal exception.
C24_NoExceptionText == up.res.details \notin BackendExceptionTexts

\* C25: once a chunk write has failed after the headers went out, the
\* response is closed: nothing more is written and it has been ended.
C25_WriteFailureAborts ==
  \A r \in Reqs :
    (get[r].lastWrite = "throw" /\ get[r].writes > 0) => get[r].res.ended

\* the answer the handler gives a request served on its own from the
\* repository when no backend call fails
AloneResponse(g) ==
  IF BasicInvalid(g.filename) THEN JsonError(404, "Invalid filename")
  ELSE IF ~getFileInfoCallsBackend(g.filename) \/ g.filename \notin DOMAIN store
  THEN JsonError(404, "File not found")
  ELSE LET whole == WholeBuffer(store[g.filename])
           h == ServeFile([IdleReq EXCEPT !.method = g.method, !.filename = g.filename,
                                          !.text = g.text, !.plain = g.plain,
                                          !.range = g.range], whole, "ok")
       IN IF h.pc = "done" THEN h.res
          ELSE [h.res EXCEPT !.body = <<whole>>, !.ended = TRUE]

\* C26: whatever the interleaving of two GET requests, the status, headers
\* and bytes of each answer are those of the request served alone; a request
\* that ran out of attempts on backend failures is answered 404.
C26_RequestsIndependent ==
  \A r \in Reqs :
    LET g == get[r]
    IN Answered(g)
         => \/ g.res = AloneResponse(g)
            \/ /\ g.faulted
               /\ g.res \in {JsonError(404, "File not found"),
                             JsonError(404, "File not found or corrupted")}

\* C26 witness: one request for the chunked blob was answered in full while
\* the other was in the middle of its own delivery of the same blob.
C26_Witness ==
  /\ Answered(get[1]) /\ get[1].filename = K_film /\ get[1].writes = 6
  /\ get[1].res.status = 200
  /\ get[2].filename = K_film /\ get[2].pc = "drain" /\ get[2].writes = 3

\* the smaller of a position and a length
UpTo(pos, len) == IF pos < len THEN pos ELSE len

\* a GET in chunked delivery
Streaming(g) == g.method = "GET" /\ g.pc \in {"stream", "drain"}

\* C27: after res.write returned false the request waits for drain and writes
\* nothing; the offset advances by one chunk per chunk written.
C27_Backpressure ==
  \A r \in Reqs :
    LET g == get[r]
    IN g.method = "GET"
         => /\ g.lastWrite = "full" <=> g.pc = "drain"
            /\ g.pc = "drain" => /\ g.offset = MiB * (g.writes - 1)
                                 /\ g.res.body[1].hi = UpTo(g.offset + MiB, BufLen(g.data))
            /\ g.pc = "stream" => /\ g.offset = MiB * g.writes
                                  /\ g.res.body[1].hi = UpTo(g.offset, BufLen(g.data))

\* C27 witness: the third chunk of the blob was written, res.write returned
\* false, and the request waits.
C27_Witness ==
  /\ get[1].method = "GET" /\ get[1].pc = "drain" /\ get[1].writes = 3
  /\ get[1].offset = 2 * MiB /\ get[1].filename = K_film

\* the number of chunks of a body
ChunksOf(len) == (len + (MiB - 1)) \div MiB

\* C28: chunked delivery writes the body in consecutive slices of 1 MiB, the
\* last one shorter: at every point what was written is one run of bytes
\* from the first, and at the end it is the whole body, in ChunksOf(size)
\* writes, with Content-Length the size.
C28_ChunkedWhole ==
  \A r \in Reqs :
    LET g == get[r]
        len == BufLen(g.data)
    IN /\ (Streaming(g) \/ (Answered(g) /\ g.writes > 0))
            => /\ Len(g.res.body) = 1
               /\ g.res.body[1].data = g.data.data /\ g.res.body[1].lo = 0
               /\ g.res.body[1].hi = (IF g.writes * MiB < len THEN g.writes * MiB ELSE len)
               /\ g.res.clen = Length(Num(len))
       /\ (Answered(g) /\ g.writes > 0)
            => /\ g.res.body = <<WholeBuffer(store[g.filename])>>
               /\ g.writes = ChunksOf(len)
               /\ g.res.status = 200
       /\ (Served(g) /\ g.range = <<>> /\ ~ForcedText(g) /\ len > 5 * MiB
             /\ ~IsTextMime(g.res.ctype))
            => g.writes > 0

\* C28 witness: the blob of 5 MiB + 1 bytes was delivered in 6 writes.
C28_Witness ==
  /\ Answered(get[1]) /\ get[1].filename = K_film /\ get[1].writes = 6
  /\ get[1].offset = 6 * MiB /\ get[1].res.status = 200

C30_PartialHasNumericBounds ==
  \A r \in Reqs :
    LET g == get[r]
        S == BufLen(g.data)
    IN (Answered(g) /\ g.res.status = 206)
         => /\ NumericRange(g)
            /\ 0 <= RangeStart(g.range).v
            /\ RangeStart(g.range).v <= RangeEnd(g.range, S).v
            /\ RangeEnd(g.range, S).v <= S - 1

\* res.headersSent: the status line and the headers have gone out
HeadersSent(g) == g.res.ended \/ g.writes > 0
\* two responses have the same status and headers
SameHead(a, b) ==
  /\ a.status = b.status /\ a.ctype = b.ctype /\ a.clen = b.clen
  /\ a.crange = b.crange /\ a.cdisp = b.cdisp /\ a.accept = b.accept /\ a.cache = b.cache

\* C31: a request that has been answered has sent a status and headers; none
\* has gone out while the handler is still looking for the blob; and once
\* they have gone out no step of the request sends a status or headers again.
C31_OneResponse ==
  /\ [](\A r \in Reqs :
          /\ get[r].pc = "done" => HeadersSent(get[r]) /\ get[r].res.status # 0
          /\ get[r].pc \in {"idle", "check", "fetch", "download"} => ~HeadersSent(get[r]))
  /\ [][\A r \in Reqs :
          (HeadersSent(get[r]) /\ get'[r].pc # "idle")
            => SameHead(get[r].res, get'[r].res)]_vars

\* C31 witness: a chunk write threw after the 200 and its headers had gone
\* out, and the response still has that status.
C31_Witness ==
  /\ get[1].method = "GET" /\ get[1].pc = "failed" /\ get[1].lastWrite = "throw"
  /\ get[1].writes = 2 /\ get[1].res.status = 200

\* C32: the write follows the existence check and carries the sha of the
\* stored object when the key is stored, and no sha when it is not.
C32_CreateOrReplace ==
  up.pc = "put"
    => IF up.filename \in DOMAIN store THEN up.sha = ShaOf(store[up.filename])
       ELSE up.sha = "none"

\* C33: getFileFromGitHub downloads exactly the objects of more than 1 MiB
\* and decodes the inline content of the others; the buffer a request holds is
\* the whole stored object, and a request whose download failed holds none.
C33_DownloadAboveOneMiB ==
  \A r \in Reqs :
    LET g == get[r]
    IN g.filename \in DOMAIN store
         => /\ g.data \in {NoBuffer, WholeBuffer(store[g.filename])}
            /\ g.data # NoBuffer
                 => (g.downloadCalls > 0 <=> SizeOf(store[g.filename]) > MiB)
            /\ g.downloadCalls > 0 => SizeOf(store[g.filename]) > MiB
            /\ g.pc = "download" => g.data = NoBuffer
            /\ g.downloadCalls <= g.contentCalls
            /\ (Answered(g) /\ g.data = NoBuffer)
                 => g.res.status = 404 /\ g.res.body = <<>>

\* C33 witness: the object of 1 MiB + 1 bytes was served whole after one
\* download had failed and the next had succeeded.
C33_Witness ==
  /\ Served(get[1]) /\ get[1].filename = K_pic /\ get[1].downloadCalls = 2
  /\ get[1].res.status = 200 /\ get[1].res.body = <<WholeBuffer("pic")>>

\* C34: a request makes at most maxRetries calls of getFileInfo and at most
\* maxRetries calls of getFileFromGitHub; after the call that succeeded it
\* makes no further one; and it is answered 404 for want of a result only
\* when maxRetries attempts have failed.
C34_BoundedRetries ==
  /\ [](\A r \in Reqs :
          LET g == get[r]
          IN /\ g.infoCalls <= maxRetries /\ g.contentCalls <= maxRetries
             /\ g.i <= maxRetries
             /\ (Answered(g) /\ g.res.error = "File not found")
                  => ~g.found /\ g.i = maxRetries
             /\ (Answered(g) /\ g.res.error = "File not found or corrupted")
                  => g.found /\ g.data = NoBuffer /\ g.contentCalls = maxRetries)
  /\ [][\A r \in Reqs :
          get'[r].pc # "idle"
            => /\ get[r].found => get'[r].infoCalls = get[r].infoCalls
               /\ get[r].data # NoBuffer => get'[r].contentCalls = get[r].contentCalls]_vars

\* C34 witness: the blob was served after getFileInfo succeeded at its third
\* attempt and getFileFromGitHub at its second.
C34_Witness ==
  /\ Served(get[1]) /\ get[1].infoCalls = 3 /\ get[1].contentCalls = 2
  /\ get[1].res.status = 200

\* C35: a retry loop has waited before every attempt after the first.
C35_WaitBetweenAttempts ==
  /\ \A r \in Reqs :
       /\ get[r].infoCalls >= 2 => get[r].waits >= get[r].infoCalls - 1
       /\ get[r].contentCalls >= 2 => get[r].waits >= get[r].contentCalls - 1
  /\ up.attempts >= 2 => up.waits >= up.attempts - 1

\* C36: an upload request adds at most one key to the repository, and one
\* answered with a failure leaves the repository as it found it.
C36_AtMostOneBlob ==
  /\ Cardinality(DOMAIN store \ DOMAIN up.before) <= 1
  /\ (up.pc = "done" /\ up.res.status # 200) => store = up.before

\* C37: no step of a GET, HEAD or /api/info request changes the repository.
C37_ReadsLeaveStore == [][get' # get => store' = store]_vars

\* C37 witness: with the uploaded blob in the repository, a GET of it and an
\* /api/info of it have been answered 200.
C37_Witness ==
  /\ K_film \in DOMAIN store /\ store[K_film] = "film"
  /\ get[1].pc = "done" /\ get[1].method = "GET" /\ get[1].filename = K_film
  /\ get[1].res.status = 200 /\ get[1].writes = 6
  /\ get[2].pc = "done" /\ get[2].method = "INFO" /\ get[2].filename = K_film
  /\ get[2].res.status = 200

\* C38: every stored object has a size above 0 and of at most 100 MiB, under
\* the key files/<identifier> of an identifier of the fixed shape.
C38_StoredBlobsBounded ==
  \A k \in DOMAIN store :
    /\ 0 < SizeOf(store[k]) /\ SizeOf(store[k]) <= 100 * MiB
    /\ isValidFilename(k)

====
